---- MODULE Spec2Model ----
(***************************************************************************)
(* vite-plugin-typed-css-modules: the plugin of src/src/index.ts (lines    *)
(* 1-308) as a state machine.  The state is the closure of plugin() (the   *)
(* options, include, viteConfig, _filter, rootOutputDir, srcDir), the      *)
(* filesystem, and the generations that are in flight between their awaits.*)
(*                                                                         *)
(* A path is a record [abs, segs]: segs is the sequence of its segments    *)
(* and a segment is the sequence of the lexical tokens of its name         *)
(* ("a.module.css" is <<"a", ".module", ".css">>), so that the suffix and  *)
(* prefix tests of the globs and of String.startsWith are computed on the  *)
(* name, not looked up.                                                    *)
(***************************************************************************)
EXTENDS Integers, Sequences, FiniteSets, Bags, TLC

VARIABLES
    options,        \* the argument of plugin()
    pc,             \* "new", "ready" (plugin() returned), "threw" (plugin() threw)
    include,        \* let include
    viteConfig,     \* let viteConfig: [resolved, command]
    _filter,        \* let _filter: [made, include, ignore, base]
    rootOutputDir,  \* let rootOutputDir: [given, path]
    srcDir,         \* let srcDir: a path
    fs,             \* the disk: absolute segs -> content, DOMAIN fs = the files that exist
    tasks,          \* bag of generateTypeDefinitions calls suspended at an await
    build,          \* the promise of the latest buildStart: [id, state]
    generations,    \* number of generateTypeDefinitions calls made so far
    last            \* what the step that led to this state did

vars == <<options, pc, include, viteConfig, _filter, rootOutputDir, srcDir,
          fs, tasks, build, generations, last>>

----------------------------------------------------------------------------
(* Bounds *)

\* generateTypeDefinitions is called at most MaxGenerations times in a behaviour
MaxGenerations == 2

----------------------------------------------------------------------------
(* Paths (node:path, as index.ts uses it) *)

DotDot == <<"..">>

Abs(segs) == [abs |-> TRUE, segs |-> segs]

Rel(segs) == [abs |-> FALSE, segs |-> segs]

\* process.cwd(): the projects are built from their root directory
Cwd == << <<"p">> >>

\* viteConfig.root
ProjectRoot == << <<"p">> >>

RECURSIVE normalize(_, _, _)
normalize(acc, rest, abs) ==
    IF rest = <<>> THEN acc
    ELSE LET s == Head(rest) IN
         IF s = DotDot
         THEN IF acc # <<>> /\ acc[Len(acc)] # DotDot
              THEN normalize(SubSeq(acc, 1, Len(acc) - 1), Tail(rest), abs)
              ELSE IF abs THEN normalize(acc, Tail(rest), abs)
                   ELSE normalize(Append(acc, s), Tail(rest), abs)
         ELSE normalize(Append(acc, s), Tail(rest), abs)

\* path.resolve(p): the absolute segments of p
pathResolve(p) ==
    IF p.abs THEN normalize(<<>>, p.segs, TRUE)
    ELSE normalize(<<>>, Cwd \o p.segs, TRUE)

\* path.join(a, b): b is appended to a whether or not it is absolute
pathJoin(a, b) == [abs |-> a.abs, segs |-> normalize(<<>>, a.segs \o b.segs, a.abs)]

RECURSIVE commonLen(_, _)
commonLen(a, b) ==
    IF a = <<>> \/ b = <<>> \/ Head(a) # Head(b) THEN 0
    ELSE 1 + commonLen(Tail(a), Tail(b))

\* path.relative(from, to): the segments of the relative path
pathRelative(from, to) ==
    LET f == pathResolve(from)
        t == pathResolve(to)
        k == commonLen(f, t)
    IN  [i \in 1..(Len(f) - k) |-> DotDot] \o SubSeq(t, k + 1, Len(t))

\* `${p}.d.ts`
withDts(segs) ==
    IF segs = <<>> THEN << <<".d", ".ts">> >>
    ELSE SubSeq(segs, 1, Len(segs) - 1) \o << segs[Len(segs)] \o <<".d", ".ts">> >>

\* relative.startsWith("..")
startsWithDotDot(relative) ==
    /\ relative # <<>>
    /\ Head(relative) # <<>>
    /\ Head(Head(relative)) = ".."

isInFolder(filePath, folderPath) ==
    LET relative == pathRelative(folderPath, filePath)
    IN  ~startsWithDotDot(relative)

----------------------------------------------------------------------------
(* Patterns and the filter (createFilter of vite, picomatch with dot: true) *)

\* a glob "**/<pre>*<suf>" (deep) or "<pre>*<suf>" (resolved against the base)
Glob(deep, pre, suf) == [deep |-> deep, pre |-> pre, suf |-> suf]

defaultFilesGlob == Glob(TRUE, <<>>, <<".module", ".css">>)

defaultSrcDir == Rel(<< <<"src">> >>)

\* "**/*.d.ts"
dtsGlob == Glob(TRUE, <<>>, <<".d", ".ts">>)

\* a faulty variant of the pattern of fileExtension: the extension is added
\* to the default pattern instead of replacing it
extensionGlobModule(extension) == Glob(TRUE, <<>>, <<".module">> \o extension)

\* `**/*${extension}`
extensionGlob(extension) == Glob(TRUE, <<>>, extension)

coerceArray(value) == IF value.given THEN value.items ELSE {}

\* the name matches <pre>*<suf>: the star takes any run of tokens of the name
segMatch(pat, seg) ==
    /\ Len(seg) >= Len(pat.pre) + Len(pat.suf)
    /\ SubSeq(seg, 1, Len(pat.pre)) = pat.pre
    /\ SubSeq(seg, Len(seg) - Len(pat.suf) + 1, Len(seg)) = pat.suf

\* a faulty variant of the matcher: ** also runs over the parent segments
\* of an id
globTestThroughParents(pat, base, id) ==
    /\ id.segs # <<>>
    /\ segMatch(pat, id.segs[Len(id.segs)])
    /\ \/ pat.deep
       \/ id.abs /\ SubSeq(id.segs, 1, Len(id.segs) - 1) = base

\* one matcher of createFilter: a pattern that starts with ** is used as it
\* is, any other pattern is joined to the resolution base; the id is matched
\* as it is written, and ** runs over no segment that is ".."
globTest(pat, base, id) ==
    /\ id.segs # <<>>
    /\ segMatch(pat, id.segs[Len(id.segs)])
    /\ \/ pat.deep /\ \A i \in 1..(Len(id.segs) - 1) : id.segs[i] # DotDot
       \/ id.abs /\ SubSeq(id.segs, 1, Len(id.segs) - 1) = base

\* createFilter(include, ignore, { resolve: srcDir })
createFilter(inc, ignore, resolve) ==
    [made |-> TRUE, include |-> inc, ignore |-> ignore, base |-> pathResolve(resolve)]

\* the function createFilter returns, applied to id
filterTest(f, id) ==
    IF \E pat \in f.ignore : globTest(pat, f.base, id) THEN FALSE
    ELSE IF \E pat \in f.include : globTest(pat, f.base, id) THEN TRUE
    ELSE f.include = {}

----------------------------------------------------------------------------
(* Contents of files.  The transformation (DtsCreator of typed-css-modules) *)
(* is opaque: it fails on a stylesheet that is missing or malformed and     *)
(* otherwise lists the class names of the stylesheet.                       *)

Css(classes) == [kind |-> "css", ok |-> TRUE, classes |-> classes]

Malformed == [kind |-> "css", ok |-> FALSE, classes |-> {}]

NoContent == [kind |-> "none", ok |-> FALSE, classes |-> {}]

\* a faulty variant of dts.formatted: the stylesheet itself is written
unformatted(content) == content

\* a faulty variant of dts.formatted: the output carries a stamp of the
\* generation that produced it
formattedStamped(content) ==
    [kind |-> "dts", ok |-> TRUE,
     classes |-> content.classes \cup {IF generations = 1 THEN "first" ELSE "later"}]

\* dts.formatted for the tokens read from a stylesheet
formatted(content) == [kind |-> "dts", ok |-> TRUE, classes |-> content.classes]

\* what the user saves into a stylesheet
CssContents == {Css({"header", "footer"}), Malformed}

----------------------------------------------------------------------------
(* The project tree and the configurations explored *)

StyleA == Abs(<< <<"p">>, <<"src">>, <<"a", ".module", ".css">> >>)

\* matches "**/__*"
StyleU == Abs(<< <<"p">>, <<"__", "a", ".module", ".css">> >>)

\* a stylesheet directly in the project root, as in the fixtures of the tests
StyleR == Abs(<< <<"p">>, <<"s", ".module", ".css">> >>)

\* the declarations beside StyleA and StyleU
DeclA == Abs(<< <<"p">>, <<"src">>, <<"a", ".module", ".css", ".d", ".ts">> >>)

DeclU == Abs(<< <<"p">>, <<"__", "a", ".module", ".css", ".d", ".ts">> >>)

Stylesheets == {StyleA, StyleU, StyleR}

\* the stylesheets the user edits while the plugin runs
Edited == {StyleA}

EventPaths == Stylesheets \cup {DeclA}

\* "rename" stands for any kind that is not create, update or delete
EventKinds == {"create", "update", "delete", "rename"}

Unset == [given |-> FALSE, items |-> {}]

Given(items) == [given |-> TRUE, items |-> items]

NoDir == [given |-> FALSE, path |-> Rel(<<>>)]

Dir(path) == [given |-> TRUE, path |-> path]

Options(inc, ign, ext, rootDir, src, verbose) ==
    [include |-> inc, ignore |-> ign, fileExtension |-> ext,
     rootDir |-> rootDir, srcDir |-> src, verbose |-> verbose]

OutDir == Rel(<< <<"out">> >>)

\* plugin({})
DefaultOptions == Options(Unset, Unset, Unset, NoDir, NoDir, FALSE)

Configs == {
    DefaultOptions,
    \* { include: "**/*.module.css", ignore: "**/__*", srcDir: ".", verbose: true }
    Options(Given({defaultFilesGlob}), Given({Glob(TRUE, <<"__">>, <<>>)}), Unset,
            NoDir, Dir(Rel(<<>>)), TRUE),
    \* { include: "**/*.module.css", fileExtension: ".css" }
    Options(Given({defaultFilesGlob}), Unset, Given({<<".css">>}), NoDir, NoDir, FALSE),
    \* { fileExtension: [".css", ".ts"], rootDir: "out" }
    Options(Unset, Unset, Given({<<".css">>, <<".ts">>}), Dir(OutDir), NoDir, FALSE)
}

\* the working tree: the stylesheets, and the declarations an earlier run
\* left beside StyleA and StyleU
InitialFs ==
    [p \in {pathResolve(f) : f \in Stylesheets \cup {DeclA, DeclU}} |->
        IF p \in {pathResolve(f) : f \in Stylesheets}
        THEN Css({"header"}) ELSE formatted(Css({"header"}))]

----------------------------------------------------------------------------
(* What a step did *)

NoPath == Rel(<<>>)

\* file and ev are the watcher event the step handles past the guards of
\* watchChange (none for buildStart and for an event a guard turned away)
Step(op, file, ev) ==
    [op |-> op, file |-> file, ev |-> ev,
     gen |-> "none",    \* generateTypeDefinitions: none, pending, fulfilled, rejected
     hook |-> "none",   \* the promise the step continues: none, pending, resolved, rejected
     skip |-> "none",   \* the guard of watchChange that returned: outside, nomatch
     errs |-> <<>>,     \* the console.error calls of the step
     failed |-> FALSE,  \* an exception was raised during the step
     batch |-> 0,       \* the buildStart a generation that ended belongs to, or 0
     read |-> NoContent]  \* the stylesheet content a generation that ended had read

GenError(file) == [by |-> "generateTypeDefinitions", file |-> file, ev |-> ""]

WatchError(file, ev) == [by |-> "watchChange", file |-> file, ev |-> ev]

Init ==
    /\ options \in Configs
    /\ pc = "new"
    /\ include = {}
    /\ viteConfig = [resolved |-> FALSE, command |-> ""]
    /\ _filter = [made |-> FALSE, include |-> {}, ignore |-> {}, base |-> <<>>]
    /\ rootOutputDir = NoDir
    /\ srcDir = defaultSrcDir
    /\ generations = 0
    /\ fs = InitialFs
    /\ tasks = EmptyBag
    /\ build = [id |-> 0, state |-> "none"]
    /\ last = Step("init", NoPath, "")

----------------------------------------------------------------------------
(* Faulty variants of the closure, which the properties below must tell    *)
(* from the code                                                           *)

\* the constructor accepts include together with fileExtension
conflictAccepted == FALSE

\* the filter without the "**/*.d.ts" exclusion
filterWithoutDts ==
    IF _filter.made THEN _filter
    ELSE createFilter(include, coerceArray(options.ignore), srcDir)

\* the delete case without the existence test
existsAssumed(p) == TRUE

\* generateTypeDefinitions swallows in every mode
neverRethrows == FALSE

\* generateTypeDefinitions rethrows in every mode
alwaysRethrows == TRUE

\* watchChange without its .catch
watchUncaught(inner) == IF inner = "rejected" THEN "rejected" ELSE "resolved"

\* the config hook lets an option choose the convention
UserConfigByOption ==
    [css |-> [modules |-> [localsConvention |->
        IF options.verbose THEN "camelCase" ELSE "camelCaseOnly"]]]

\* generateTypeDefinitions writes beside the stylesheet in every mode
outputPathBeside(file) == withDts(pathResolve(file))

\* the filter is built again on later calls, without the ignore option
filterRebuilt ==
    IF _filter.made THEN createFilter(include, {dtsGlob}, srcDir)
    ELSE createFilter(include, coerceArray(options.ignore) \cup {dtsGlob}, srcDir)

\* the scope guard of watchChange lets every path through
isCssModuleAlways(file) == TRUE

\* every declaration goes to one file of the source root
outputPathShared(file) == withDts(pathResolve(srcDir) \o << <<"index">> >>)

\* the delete case without the .d.ts suffix
dtsPathNoSuffix(file) == pathResolve(file)

\* the crawl without the exclusion of node_modules
crawlAll(dir) ==
    LET root == pathResolve(dir)
    IN  {p \in DOMAIN fs : Len(p) > Len(root) /\ SubSeq(p, 1, Len(root)) = root}

----------------------------------------------------------------------------
(* The closure of plugin() *)

\* new DtsCreator({ camelCase: true }): line 112
creator == [camelCase |-> TRUE]

\* const config: UserConfig, which the config hook returns: lines 216-222
UserConfig == [css |-> [modules |-> [localsConvention |-> "camelCaseOnly"]]]

getProjectRoot == IF viteConfig.resolved THEN Abs(ProjectRoot) ELSE Abs(Cwd)

\* a faulty variant of the filter: once it has been created it remembers
\* that it has been used and turns every later path away
filterSpent ==
    IF _filter.made THEN [_filter EXCEPT !.ignore = @ \cup {Glob(TRUE, <<>>, <<>>)}]
    ELSE createFilter(include, coerceArray(options.ignore) \cup {dtsGlob}, srcDir)

\* the filter that filter(id) uses: _filter, created on the first call
filterNow ==
    IF _filter.made THEN _filter
    ELSE createFilter(include, coerceArray(options.ignore) \cup {dtsGlob}, srcDir)

filter(id) == filterTest(filterNow, id)

isCssModule(file) == filter(file)

getRelativePath(file) ==
    IF file.abs THEN Rel(pathRelative(srcDir, file)) ELSE file

\* where generateTypeDefinitions writes: outputPath, or dts.outputFilePath
outputPath(file) ==
    IF rootOutputDir.given
    THEN pathResolve(pathJoin(rootOutputDir.path, Rel(withDts(getRelativePath(file).segs))))
    ELSE withDts(pathResolve(file))

\* what the delete case of watchChange removes
dtsPath(file) ==
    IF rootOutputDir.given
    THEN pathResolve(pathJoin(rootOutputDir.path, Rel(withDts(getRelativePath(file).segs))))
    ELSE pathResolve([file EXCEPT !.segs = withDts(@)])

\* fs.existsSync(p)
existsSync(p) == p \in DOMAIN fs

\* a faulty variant of the case labels: create is not a case of the switch
regeneratesOnUpdate(ev) == ev = "update"

\* case "create": case "update": of the switch of watchChange
regenerates(ev) == ev \in {"create", "update"}

\* the catch of generateTypeDefinitions rethrows unless the command is serve
rethrows == viteConfig.command # "serve"

\* the promise of watchChange once its inner function has settled: the
\* .catch turns a rejection into a logged resolution
watchSettled(inner) == "resolved"

\* a faulty variant of the dispatch: the generation waits for a turn that
\* nothing gives it
TaskWaiting(file, batch, ev) ==
    [file |-> file, batch |-> batch, ev |-> ev, stage |-> "waiting", read |-> NoContent]

Task(file, batch, ev) ==
    [file |-> file, batch |-> batch, ev |-> ev, stage |-> "create", read |-> NoContent]

\* the files fdir visits below dir: not below a directory named node_modules
crawl(dir) ==
    LET root == pathResolve(dir)
    IN  {p \in DOMAIN fs :
            /\ Len(p) > Len(root)
            /\ SubSeq(p, 1, Len(root)) = root
            /\ \A i \in (Len(root) + 1)..(Len(p) - 1) : p[i] # <<"node_modules">>}

getAllMatchingFiles == {p \in crawl(srcDir) : filter(Abs(p))}

----------------------------------------------------------------------------
(* Actions *)

\* both fileExtension and include are given: lines 90-91
optionsConflict == options.fileExtension.given /\ options.include.given

\* plugin(options): lines 88-112
plugin ==
    /\ pc = "new"
    /\ IF optionsConflict
       THEN /\ pc' = "threw"
            /\ last' = [Step("plugin", NoPath, "") EXCEPT !.hook = "threw"]
            /\ UNCHANGED <<include, rootOutputDir, srcDir>>
       ELSE /\ pc' = "ready"
            /\ include' =
                 IF options.fileExtension.given
                 THEN {extensionGlob(e) : e \in coerceArray(options.fileExtension)}
                 ELSE IF options.include.given THEN options.include.items
                      ELSE {defaultFilesGlob}
            /\ rootOutputDir' = options.rootDir
            /\ srcDir' = IF options.srcDir.given THEN options.srcDir.path ELSE defaultSrcDir
            /\ last' = Step("plugin", NoPath, "")
    /\ UNCHANGED <<options, viteConfig, _filter, fs, tasks, build, generations>>

\* config(): lines 215-224.  The host calls it before configResolved; it
\* returns UserConfig and changes nothing.
config ==
    /\ pc = "ready"
    /\ ~viteConfig.resolved
    /\ last' = [Step("config", NoPath, "") EXCEPT !.hook = "returned"]
    /\ UNCHANGED <<options, pc, include, viteConfig, _filter, rootOutputDir, srcDir,
                   fs, tasks, build, generations>>

\* configResolved(resolvedConfig): lines 225-235.  The host calls it once,
\* before buildStart and watchChange.
configResolved(command) ==
    /\ pc = "ready"
    /\ ~viteConfig.resolved
    /\ viteConfig' = [resolved |-> TRUE, command |-> command]
    /\ rootOutputDir' =
         IF options.rootDir.given
         THEN Dir(pathJoin(Abs(ProjectRoot), options.rootDir.path))
         ELSE rootOutputDir
    /\ srcDir' = pathJoin(Abs(ProjectRoot),
                          IF options.srcDir.given THEN options.srcDir.path ELSE defaultSrcDir)
    /\ last' = Step("configResolved", NoPath, "")
    /\ UNCHANGED <<options, pc, include, _filter, fs, tasks, build, generations>>

\* buildStart: lines 236-244.  The scan and the dispatch of one generation
\* per file; the generations continue in Create and Write.
buildStart ==
    /\ pc = "ready"
    /\ viteConfig.resolved
    /\ build.state # "pending"
    /\ LET files == getAllMatchingFiles
           id == generations + 1
       IN  /\ generations + Cardinality(files) <= MaxGenerations
           /\ generations' = generations + Cardinality(files)
           /\ _filter' = IF crawl(srcDir) = {} THEN _filter ELSE filterNow
           /\ tasks' = tasks (+) SetToBag({Task(Abs(f), id, "") : f \in files})
           /\ build' = [id |-> id, state |-> IF files = {} THEN "resolved" ELSE "pending"]
           /\ last' = [Step("buildStart", NoPath, "") EXCEPT
                          !.hook = IF files = {} THEN "resolved" ELSE "pending"]
    /\ UNCHANGED <<options, pc, include, viteConfig, rootOutputDir, srcDir, fs>>

\* watchChange(file, { event }): lines 245-304.  The delete case and the
\* default case run to completion; create and update dispatch a generation.
watchChange(file, ev) ==
    /\ pc = "ready"
    /\ viteConfig.resolved
    /\ UNCHANGED <<options, pc, include, viteConfig, rootOutputDir, srcDir, build>>
    /\ IF ~isInFolder(file, srcDir)
       THEN /\ last' = [Step("watchChange", NoPath, "") EXCEPT
                           !.hook = "resolved", !.skip = "outside"]
            /\ UNCHANGED <<_filter, fs, tasks, generations>>
       ELSE
       /\ _filter' = filterNow
       /\ IF ~isCssModule(file)
          THEN /\ last' = [Step("watchChange", NoPath, "") EXCEPT
                              !.hook = "resolved", !.skip = "nomatch"]
               /\ UNCHANGED <<fs, tasks, generations>>
          ELSE
          CASE regenerates(ev) ->
                 /\ generations < MaxGenerations
                 /\ generations' = generations + 1
                 /\ tasks' = tasks (+) SetToBag({Task(file, 0, ev)})
                 /\ last' = [Step("watchChange", file, ev) EXCEPT
                                !.hook = "pending", !.gen = "pending"]
                 /\ UNCHANGED fs
            [] ev = "delete" ->
                 /\ UNCHANGED <<tasks, generations>>
                 /\ IF existsSync(dtsPath(file))
                    THEN \/ /\ dtsPath(file) \in DOMAIN fs
                            /\ fs' = [p \in DOMAIN fs \ {dtsPath(file)} |-> fs[p]]
                            /\ last' = [Step("watchChange", file, ev) EXCEPT
                                           !.hook = watchSettled("fulfilled")]
                         \/ \* unlinkSync throws
                            /\ last' = [Step("watchChange", file, ev) EXCEPT
                                           !.hook = watchSettled("rejected"),
                                           !.failed = TRUE,
                                           !.errs = <<WatchError(file, ev)>>]
                            /\ UNCHANGED fs
                    ELSE /\ last' = [Step("watchChange", file, ev) EXCEPT
                                        !.hook = watchSettled("fulfilled")]
                         /\ UNCHANGED fs
            [] OTHER ->
                 \* assertUnreachable throws inside the inner function
                 /\ last' = [Step("watchChange", file, ev) EXCEPT
                                !.hook = watchSettled("rejected"),
                                !.failed = TRUE,
                                !.errs = <<WatchError(file, ev)>>]
                 /\ UNCHANGED <<fs, tasks, generations>>

\* a faulty variant of the settling of a generation: the rejection of
\* buildStart cancels the generations of the batch that are still in flight
SettleCancelling(t, failed) ==
    LET rest == tasks (-) SetToBag({t})
        gen == IF failed /\ rethrows THEN "rejected" ELSE "fulfilled"
        others == \E u \in BagToSet(rest) : u.batch = t.batch
        mine == t.batch # 0 /\ build.id = t.batch /\ build.state = "pending"
        hook == IF t.batch = 0 THEN watchSettled(gen)
                ELSE IF ~mine THEN "none"
                ELSE IF gen = "rejected" THEN "rejected"
                ELSE IF others THEN "pending" ELSE "resolved"
    IN  /\ tasks' = IF mine /\ gen = "rejected"
                    THEN [u \in {v \in BagToSet(rest) : v.batch # t.batch} |-> rest[u]]
                    ELSE rest
        /\ build' = IF mine THEN [build EXCEPT !.state = hook] ELSE build
        /\ last' = [Step(IF t.stage = "create" THEN "create" ELSE "write",
                        IF t.batch = 0 THEN t.file ELSE NoPath, t.ev) EXCEPT
                       !.gen = gen,
                       !.read = t.read,
                       !.failed = failed,
                       !.batch = t.batch,
                       !.hook = hook,
                       !.errs = (IF failed THEN <<GenError(t.file)>> ELSE <<>>)
                                \o (IF t.batch = 0 /\ gen = "rejected"
                                    THEN <<WatchError(t.file, t.ev)>> ELSE <<>>)]

\* how a generation that ends (failed or not) settles its caller: the .catch
\* of watchChange, or the Promise.all of buildStart, which rejects on the
\* first rejection and is not settled again by the generations that end later
Settle(t, failed) ==
    LET rest == tasks (-) SetToBag({t})
        gen == IF failed /\ rethrows THEN "rejected" ELSE "fulfilled"
        others == \E u \in BagToSet(rest) : u.batch = t.batch
        mine == t.batch # 0 /\ build.id = t.batch /\ build.state = "pending"
        hook == IF t.batch = 0 THEN watchSettled(gen)
                ELSE IF ~mine THEN "none"
                ELSE IF gen = "rejected" THEN "rejected"
                ELSE IF others THEN "pending" ELSE "resolved"
    IN  /\ tasks' = rest
        /\ build' = IF mine THEN [build EXCEPT !.state = hook] ELSE build
        /\ last' = [Step(IF t.stage = "create" THEN "create" ELSE "write",
                        IF t.batch = 0 THEN t.file ELSE NoPath, t.ev) EXCEPT
                       !.gen = gen,
                       !.read = t.read,
                       !.failed = failed,
                       !.batch = t.batch,
                       !.hook = hook,
                       !.errs = (IF failed THEN <<GenError(t.file)>> ELSE <<>>)
                                \o (IF t.batch = 0 /\ gen = "rejected"
                                    THEN <<WatchError(t.file, t.ev)>> ELSE <<>>)]

\* a faulty variant of the transformation step: a failed transformation
\* removes the declaration that an earlier generation wrote
CreateClearing(t) ==
    /\ t.stage = "create"
    /\ LET p == pathResolve(t.file)
       IN  IF p \in DOMAIN fs /\ fs[p].kind = "css" /\ fs[p].ok
           THEN /\ tasks' = (tasks (-) SetToBag({t}))
                               (+) SetToBag({[t EXCEPT !.stage = "write", !.read = fs[p]]})
                /\ last' = [Step("create", NoPath, "") EXCEPT
                               !.gen = "pending", !.hook = "pending"]
                /\ UNCHANGED <<build, fs>>
           ELSE /\ fs' = [q \in DOMAIN fs \ {outputPath(t.file)} |-> fs[q]]
                /\ Settle(t, TRUE)
    /\ UNCHANGED <<options, pc, include, viteConfig, _filter, rootOutputDir, srcDir,
                   generations>>

\* await creator.create(file, undefined, true): line 156
Create(t) ==
    /\ t.stage = "create"
    /\ LET p == pathResolve(t.file)
       IN  IF p \in DOMAIN fs /\ fs[p].kind = "css" /\ fs[p].ok
           THEN /\ tasks' = (tasks (-) SetToBag({t}))
                               (+) SetToBag({[t EXCEPT !.stage = "write", !.read = fs[p]]})
                /\ last' = [Step("create", NoPath, "") EXCEPT
                               !.gen = "pending", !.hook = "pending"]
                /\ UNCHANGED build
           ELSE Settle(t, TRUE)
    /\ UNCHANGED <<options, pc, include, viteConfig, _filter, rootOutputDir, srcDir,
                   fs, generations>>

\* mkdirSync and writeFileSync, or await dts.writeFile(): lines 158-171
Write(t) ==
    /\ t.stage = "write"
    /\ \/ \* the write throws
          /\ UNCHANGED fs
          /\ Settle(t, TRUE)
       \/ /\ fs' = [p \in DOMAIN fs \cup {outputPath(t.file)} |->
                      IF p = outputPath(t.file) THEN formatted(t.read) ELSE fs[p]]
          /\ Settle(t, FALSE)
    /\ UNCHANGED <<options, pc, include, viteConfig, _filter, rootOutputDir, srcDir,
                   generations>>

\* the user saves a stylesheet
EditFile(file, content) ==
    /\ pc = "ready"
    /\ fs' = [p \in DOMAIN fs \cup {pathResolve(file)} |->
                IF p = pathResolve(file) THEN content ELSE fs[p]]
    /\ last' = Step("edit", NoPath, "")
    /\ UNCHANGED <<options, pc, include, viteConfig, _filter, rootOutputDir, srcDir,
                   tasks, build, generations>>

Next ==
    \/ plugin
    \/ config
    \/ \E command \in {"serve", "build"} : configResolved(command)
    \/ buildStart
    \/ \E file \in EventPaths, ev \in EventKinds : watchChange(file, ev)
    \/ \E t \in BagToSet(tasks) : Create(t)
    \/ \E t \in BagToSet(tasks) : Write(t)
    \/ \E file \in Edited, content \in CssContents : EditFile(file, content)

Spec == Init /\ [][Next]_vars

----------------------------------------------------------------------------
(* The path mapping and the scan on deeper trees: stylesheets in nested     *)
(* directories and below node_modules, projects with and without a src     *)
(* directory, rootDir relative and absolute, event paths absolute and       *)
(* relative.  The hooks are those of Spec.                                  *)

\* src/components/Button.module.css
Button ==
    Abs(<< <<"p">>, <<"src">>, <<"components">>, <<"Button", ".module", ".css">> >>)

\* the same file as the watcher may name it, relative to the working directory
ButtonRel == Rel(<< <<"src">>, <<"components">>, <<"Button", ".module", ".css">> >>)

\* components/Button.module.css in a project that has no src directory
ButtonFlat == Abs(<< <<"p">>, <<"components">>, <<"Button", ".module", ".css">> >>)

\* src/components/node_modules/v.module.css
Vendored ==
    Abs(<< <<"p">>, <<"src">>, <<"components">>, <<"node_modules">>,
           <<"v", ".module", ".css">> >>)

VendoredFlat == Abs(<< <<"p">>, <<"node_modules">>, <<"v", ".module", ".css">> >>)

\* a project with a src directory, and one whose files lie in the project root
Trees == { {StyleR, Button, Vendored},
           {StyleR, ButtonFlat, VendoredFlat} }

TreePaths == {StyleR, Button, ButtonRel, ButtonFlat, Vendored}

\* an absolute rootDir
AbsOutDir == Abs(<< <<"o">> >>)

TreeConfigs == {
    DefaultOptions,
    \* { rootDir: "out" }
    Options(Unset, Unset, Unset, Dir(OutDir), NoDir, FALSE),
    \* { rootDir: "/o" }
    Options(Unset, Unset, Unset, Dir(AbsOutDir), NoDir, FALSE),
    \* { rootDir: "out", srcDir: "." }
    Options(Unset, Unset, Unset, Dir(OutDir), Dir(Rel(<<>>)), FALSE),
    \* { srcDir: "." }
    Options(Unset, Unset, Unset, NoDir, Dir(Rel(<<>>)), FALSE)
}

InitTree ==
    /\ options \in TreeConfigs
    /\ pc = "new"
    /\ include = {}
    /\ viteConfig = [resolved |-> FALSE, command |-> ""]
    /\ _filter = [made |-> FALSE, include |-> {}, ignore |-> {}, base |-> <<>>]
    /\ rootOutputDir = NoDir
    /\ srcDir = defaultSrcDir
    /\ \E tree \in Trees : fs = [p \in {pathResolve(f) : f \in tree} |-> Css({"button"})]
    /\ tasks = EmptyBag
    /\ build = [id |-> 0, state |-> "none"]
    /\ generations = 0
    /\ last = Step("init", NoPath, "")

\* the mapping does not depend on the command: a dev server, whose watcher
\* reports a stylesheet as changed or removed
NextTree ==
    \/ plugin
    \/ configResolved("serve")
    \/ buildStart
    \/ \E file \in TreePaths, ev \in {"update", "delete"} : watchChange(file, ev)
    \/ \E t \in BagToSet(tasks) : Create(t)
    \/ \E t \in BagToSet(tasks) : Write(t)

SpecTree == InitTree /\ [][NextTree]_vars

----------------------------------------------------------------------------
(* The scope of the matcher: the deprecated fileExtension option, files    *)
(* that are not CSS modules, ignored files, and watcher events of every    *)
(* kind for paths inside and outside the source root.  The hooks are those *)
(* of Spec.                                                                *)

\* src/test.css: a stylesheet that "**/*.module.css" does not match
TestCss == Abs(<< <<"p">>, <<"src">>, <<"test", ".css">> >>)

\* src/__x.css: matches "**/__*"
Hidden == Abs(<< <<"p">>, <<"src">>, <<"__", "x", ".css">> >>)

\* src/x.ts: ends with the extension .ts (not on disk)
Script == Abs(<< <<"p">>, <<"src">>, <<"x", ".ts">> >>)

ScopePaths == {TestCss, StyleA, Hidden, Script, DeclA, StyleR}

\* one event kind for each case of the switch of watchChange
ScopeKinds == {"update", "delete", "rename"}

ScopeConfigs == {
    DefaultOptions,
    \* { fileExtension: ".css" }
    Options(Unset, Unset, Given({<<".css">>}), NoDir, NoDir, FALSE),
    \* { fileExtension: [".css", ".ts"], ignore: "**/__*" }
    Options(Unset, Given({Glob(TRUE, <<"__">>, <<>>)}), Given({<<".css">>, <<".ts">>}),
            NoDir, NoDir, FALSE)
}

\* the stylesheets, and the declaration an earlier run left beside StyleA
ScopeFs ==
    [p \in {pathResolve(f) : f \in {TestCss, StyleA, Hidden, StyleR, DeclA}} |->
        IF p = pathResolve(DeclA) THEN formatted(Css({"header"})) ELSE Css({"header"})]

InitScope ==
    /\ options \in ScopeConfigs
    /\ pc = "new"
    /\ include = {}
    /\ viteConfig = [resolved |-> FALSE, command |-> ""]
    /\ _filter = [made |-> FALSE, include |-> {}, ignore |-> {}, base |-> <<>>]
    /\ rootOutputDir = NoDir
    /\ srcDir = defaultSrcDir
    /\ fs = ScopeFs
    /\ tasks = EmptyBag
    /\ build = [id |-> 0, state |-> "none"]
    /\ generations = 0
    /\ last = Step("init", NoPath, "")

NextScope ==
    \/ plugin
    \/ configResolved("serve")
    \/ buildStart
    \/ \E file \in ScopePaths, ev \in ScopeKinds : watchChange(file, ev)
    \/ \E t \in BagToSet(tasks) : Create(t)
    \/ \E t \in BagToSet(tasks) : Write(t)

SpecScope == InitScope /\ [][NextScope]_vars

----------------------------------------------------------------------------
(* Vocabulary of the properties *)

\* the path carries the declaration suffix .d.ts
isDeclaration(file) ==
    file.segs # <<>> /\ segMatch(dtsGlob, file.segs[Len(file.segs)])

matchesAny(pats, file) == \E pat \in pats : globTest(pat, pathResolve(srcDir), file)

matchesIgnore(file) == matchesAny(coerceArray(options.ignore), file)

\* in scope: an include pattern matches, no ignore pattern does, and the path
\* is not a declaration
inScope(file) ==
    matchesAny(include, file) /\ ~matchesIgnore(file) /\ ~isDeclaration(file)

\* the stylesheet is on disk and the transformation accepts it
transformable(file) ==
    /\ pathResolve(file) \in DOMAIN fs
    /\ fs[pathResolve(file)].kind = "css"
    /\ fs[pathResolve(file)].ok

\* the step ended a generation of a buildStart, or was buildStart itself
buildStep == last.op = "buildStart" \/ last.batch # 0

\* the step handled a watcher event past the guards, or ended its generation
watchStep == last.ev # ""

----------------------------------------------------------------------------
(* Properties *)

\* C1: when watchChange handles a create or update event for an in-scope
\* stylesheet whose transformation succeeds, then once the handler has
\* completed the declaration of the stylesheet exists and holds the
\* transformation output for the content that was read.
C1_CreateOrUpdateWritesDeclaration ==
    [][ /\ \A file \in EventPaths, ev \in {"create", "update"} :
              (/\ watchChange(file, ev)
               /\ inScope(file)
               /\ transformable(file)
               /\ last'.hook = "resolved")
              => /\ outputPath(file) \in DOMAIN fs'
                 /\ fs'[outputPath(file)] = formatted(fs[pathResolve(file)])
        /\ \A t \in BagToSet(tasks) :
              (Write(t) /\ t.batch = 0 /\ ~last'.failed)
              => /\ outputPath(t.file) \in DOMAIN fs'
                 /\ fs'[outputPath(t.file)] = formatted(t.read) ]_vars

\* C2: for every in-scope stylesheet whose declaration exists, handling a
\* delete event for it removes the declaration (unless the unlink itself
\* fails), in in-place and in relocated mode alike.
C2_DeleteRemovesDeclaration ==
    [][ \A file \in EventPaths :
          (/\ watchChange(file, "delete")
           /\ inScope(file)
           /\ dtsPath(file) \in DOMAIN fs
           /\ ~last'.failed)
          => dtsPath(file) \notin DOMAIN fs' ]_vars

\* C3: a delete event for an in-scope path whose declaration does not exist
\* is a no-op and not an error: the handler completes normally, no file is
\* created, changed or removed, no generation starts and nothing is logged
\* as an error.  (A step of watchChange for such an event is either one in
\* which a guard turned the event away or the delete case for that path.)
C3_DeleteWithoutDeclarationIsNoOp ==
    [][ (/\ last'.op = "watchChange"
         /\ \/ last'.skip # "none"
            \/ /\ last'.ev = "delete"
               /\ inScope(last'.file)
               /\ dtsPath(last'.file) \notin DOMAIN fs)
          => /\ fs' = fs
             /\ tasks' = tasks
             /\ last'.hook = "resolved"
             /\ ~last'.failed
             /\ last'.errs = <<>> ]_vars

\* a delete event passed both guards although no generation has ever run and
\* the tree held no declaration at the path the delete case computes
C3_Witness ==
    /\ last.op = "watchChange" /\ last.ev = "delete" /\ last.skip = "none"
    /\ inScope(last.file)
    /\ generations = 0
    /\ dtsPath(last.file) \notin DOMAIN InitialFs
    /\ last.hook = "resolved" /\ last.errs = <<>>

\* C4: a path that matches an include pattern and an ignore pattern is never
\* processed (no scan and no watcher event starts a generation for it or
\* removes a file on its behalf), while a path that matches an include
\* pattern and no ignore pattern is processed by the scan and by the watcher.
C4_IgnoredNeverOthersAlways ==
    [][ /\ \A t \in BagToSet(tasks') : ~matchesIgnore(t.file)
        /\ \A file \in EventPaths, ev \in EventKinds :
              watchChange(file, ev) =>
                 /\ (matchesAny(include, file) /\ matchesIgnore(file))
                       => (fs' = fs /\ tasks' = tasks)
                 /\ inScope(file) => last'.skip = "none"
        /\ buildStart =>
              \A file \in Stylesheets :
                 (inScope(file) /\ pathResolve(file) \in DOMAIN fs)
                 => \E t \in BagToSet(tasks') : t.file = file /\ t.batch # 0 ]_vars

\* C5: a path ending in .d.ts is never treated as a stylesheet, whatever the
\* include patterns or extensions: no generation runs for one, no watcher
\* event for one passes the guards, and the scan returns none.
C5_DeclarationsAreNeverStylesheets ==
    /\ \A t \in BagToSet(tasks) : ~isDeclaration(t.file)
    /\ (last.op = "watchChange" /\ last.skip = "none") => ~isDeclaration(last.file)
    /\ pc = "ready" => \A p \in getAllMatchingFiles : ~isDeclaration(Abs(p))

\* the filter turned a watcher event away, and every path whose event the
\* filter can have turned away is a declaration that an include pattern
\* matches; one of them is on disk below the scanned directory
C5_Witness ==
    /\ last.op = "watchChange" /\ last.skip = "nomatch"
    /\ \A file \in EventPaths :
          (isInFolder(file, srcDir) /\ ~isCssModule(file))
          => (isDeclaration(file) /\ matchesAny(include, file))
    /\ \E p \in crawl(srcDir) : isDeclaration(Abs(p)) /\ matchesAny(include, Abs(p))

\* C6: plugin() throws exactly when both include and fileExtension are
\* given, and it throws before any hook runs and before any file is scanned,
\* generated or deleted.
C6_ConflictingOptionsThrow ==
    /\ pc # "new" =>
          (pc = "threw" <=> (options.include.given /\ options.fileExtension.given))
    /\ pc \in {"new", "threw"} =>
          /\ fs = InitialFs
          /\ tasks = EmptyBag
          /\ generations = 0
          /\ build.state = "none"
          /\ ~viteConfig.resolved
          /\ last.op \in {"init", "plugin"}

C6_Witness ==
    /\ pc = "threw"
    /\ last.op = "plugin" /\ last.hook = "threw"
    /\ options.include.given /\ options.fileExtension.given

\* C7: when buildStart has resolved under the default options, every file
\* below the project root and outside node_modules whose name matches
\* *.module.css, the files directly in the project root included, has a
\* declaration beside it.
C7_DefaultBuildDeclaresEveryModule ==
    (/\ options = DefaultOptions
     /\ buildStep
     /\ last.hook = "resolved")
    => \A p \in DOMAIN fs :
          (/\ Len(p) > Len(ProjectRoot)
           /\ SubSeq(p, 1, Len(ProjectRoot)) = ProjectRoot
           /\ \A i \in 1..(Len(p) - 1) : p[i] # <<"node_modules">>
           /\ segMatch(defaultFilesGlob, p[Len(p)]))
          => /\ withDts(p) \in DOMAIN fs
             /\ fs[withDts(p)].kind = "dts"

\* C8: in build mode a generation of a buildStart that fails is rethrown and
\* rejects the promise of that buildStart; the promise is rejected by the
\* first failure only and never resolves afterwards.
C8_BuildFailureRejectsBuildStart ==
    (/\ viteConfig.command = "build"
     /\ last.batch # 0
     /\ last.failed)
    => /\ last.gen = "rejected"
       /\ last.hook \in {"rejected", "none"}
       /\ last.batch = build.id => build.state = "rejected"

\* a second generation of one buildStart fails after the first failure has
\* already rejected it
C8_Witness ==
    /\ viteConfig.command = "build"
    /\ last.batch # 0 /\ last.batch = build.id
    /\ last.failed /\ last.gen = "rejected"
    /\ last.hook = "none"
    /\ build.state = "rejected"

\* C9: in serve mode a failure is logged and swallowed: no generation, no
\* buildStart and no watchChange rejects, and the plugin stays able to
\* handle the events that follow.
C9_ServeSwallowsFailures ==
    viteConfig.command = "serve" =>
       /\ last.gen # "rejected"
       /\ last.hook # "rejected"
       /\ build.state # "rejected"
       /\ last.failed =>
             /\ pc = "ready"
             /\ last.errs # <<>>
             /\ last.op \in {"create", "write"} =>
                   (last.gen = "fulfilled" /\ last.errs[1].by = "generateTypeDefinitions")

\* in serve mode the generation of a watcher event has failed while another
\* generation was still to end
C9_Witness ==
    /\ viteConfig.command = "serve"
    /\ last.op \in {"create", "write"} /\ watchStep
    /\ last.failed
    /\ last.gen = "fulfilled" /\ last.hook = "resolved"
    /\ tasks # EmptyBag

----------------------------------------------------------------------------
(* Vocabulary of the properties about roots and paths *)

\* segs lies below the directory root
below(root, segs) == Len(segs) > Len(root) /\ SubSeq(segs, 1, Len(root)) = root

\* no directory on the way to the file is named node_modules
outsideNodeModules(segs) == \A i \in 1..(Len(segs) - 1) : segs[i] # <<"node_modules">>

\* the source root as documented: the srcDir option against the project
\* root, else <project root>/src if it is on disk, else the project root
documentedSourceRoot ==
    IF options.srcDir.given
    THEN pathResolve(pathJoin(Abs(ProjectRoot), options.srcDir.path))
    ELSE IF \E p \in DOMAIN fs : below(ProjectRoot \o defaultSrcDir.segs, p)
         THEN ProjectRoot \o defaultSrcDir.segs
         ELSE ProjectRoot

\* the output root as documented: rootDir itself when it is absolute, else
\* rootDir against the project root
documentedOutputRoot ==
    IF options.rootDir.path.abs THEN pathResolve(options.rootDir.path)
    ELSE pathResolve(pathJoin(Abs(ProjectRoot), options.rootDir.path))

\* the mirrored declaration of a stylesheet in relocated mode
mirrored(file) ==
    withDts(documentedOutputRoot \o pathRelative(Abs(documentedSourceRoot), file))

\* the directory the scan is documented to walk
documentedScanRoot ==
    IF options.rootDir.given /\ options.srcDir.given THEN documentedSourceRoot
    ELSE ProjectRoot

\* the files for which the latest buildStart dispatched a generation
scanned == {t.file : t \in {u \in BagToSet(tasks) : u.batch = build.id}}

----------------------------------------------------------------------------
(* Properties about event kinds, roots and paths *)

\* C11: a watcher event whose kind is not create, update or delete is thrown
\* to the caller of watchChange: the promise of the hook rejects.
C11_UnknownKindRejects ==
    (last.op = "watchChange" /\ last.ev \notin {"", "create", "update", "delete"})
    => last.hook = "rejected"

\* C12: in relocated mode the declaration written for a stylesheet is the
\* output root joined with the path of the stylesheet relative to the source
\* root, with .d.ts appended.
C12_RelocatedDeclarationIsMirrored ==
    (/\ options.rootDir.given
     /\ last.op = "write" /\ watchStep /\ ~last.failed)
    => /\ mirrored(last.file) \in DOMAIN fs
       /\ fs[mirrored(last.file)] = formatted(last.read)

\* C13: in in-place mode a generation writes exactly the stylesheet's own
\* path with .d.ts appended, and a delete event removes exactly that path.
C13_InPlaceDeclarationIsBeside ==
    [][ (~rootOutputDir.given /\ last'.ev # "" /\ ~last'.failed) =>
          LET beside == withDts(pathResolve(last'.file)) IN
          /\ last'.op = "write" =>
                fs' = [p \in DOMAIN fs \cup {beside} |->
                          IF p = beside THEN formatted(last'.read) ELSE fs[p]]
          /\ (last'.op = "watchChange" /\ last'.ev = "delete") =>
                fs' = [p \in DOMAIN fs \ {beside} |-> fs[p]] ]_vars

\* in in-place mode a generation for a nested stylesheet that the watcher
\* named by a relative path has written the declaration beside it
C13_Witness ==
    /\ ~rootOutputDir.given /\ viteConfig.resolved
    /\ last.op = "write" /\ ~last.failed
    /\ last.file = ButtonRel
    /\ withDts(Button.segs) \in DOMAIN fs

\* C14: the declaration path of a stylesheet does not depend on whether the
\* stylesheet is named by an absolute or by a relative path, for the file a
\* generation writes and for the file a delete event removes.
C14_AbsoluteAndRelativeAgree ==
    watchStep =>
       /\ outputPath(last.file) = outputPath(Abs(pathResolve(last.file)))
       /\ dtsPath(last.file) = dtsPath(Abs(pathResolve(last.file)))

\* C15: once the configuration is resolved the source root is the srcDir
\* option against the project root, or without the option <project root>/src
\* if that directory is on disk and the project root otherwise.
C15_SourceRootFallsBackToProjectRoot ==
    viteConfig.resolved => pathResolve(srcDir) = documentedSourceRoot

\* C16: once the configuration is resolved the output root is the directory
\* the rootDir option denotes, absolute or relative to the project root, and
\* every declaration of relocated mode is written below it.
C16_OutputRootIsTheDirectoryDenoted ==
    (viteConfig.resolved /\ options.rootDir.given) =>
       /\ rootOutputDir.given
       /\ pathResolve(rootOutputDir.path) = documentedOutputRoot
       /\ (last.op = "write" /\ watchStep /\ ~last.failed)
             => below(documentedOutputRoot, outputPath(last.file))

\* C17: the source-root guard turns an event away only in relocated mode and
\* only for a path outside the source root; in in-place mode an event for an
\* in-scope stylesheet anywhere below the project root passes.
C17_GuardOnlyInRelocatedMode ==
    [][ \A file \in EventPaths, ev \in {"create", "update", "delete"} :
          (watchChange(file, ev) /\ last'.skip = "outside")
          => /\ options.rootDir.given
             /\ ~isInFolder(file, Abs(documentedSourceRoot)) ]_vars

\* C18: the scan walks the project root, and the source root only in
\* relocated mode with srcDir given: every in-scope stylesheet below the
\* directory walked (outside node_modules) gets its generation.
C18_ScanWalksProjectRoot ==
    last.op = "buildStart" =>
       \A p \in DOMAIN fs :
          (/\ below(documentedScanRoot, p)
           /\ outsideNodeModules(p)
           /\ inScope(Abs(p)))
          => Abs(p) \in scanned

\* C19: the scan returns no file inside a directory named node_modules, at
\* any depth, and returns every in-scope file below the directory it walks
\* that is not inside one, however deeply nested.
C19_ScanSkipsNodeModulesOnly ==
    last.op = "buildStart" =>
       /\ \A file \in scanned : outsideNodeModules(file.segs)
       /\ \A p \in DOMAIN fs :
             (/\ below(pathResolve(srcDir), p)
              /\ outsideNodeModules(p)
              /\ inScope(Abs(p)))
             => Abs(p) \in scanned

\* buildStart has scanned a tree with an in-scope stylesheet two directories
\* down and another one inside a nested node_modules
C19_Witness ==
    /\ last.op = "buildStart"
    /\ Button \in scanned
    /\ below(pathResolve(srcDir), Vendored.segs)
    /\ Vendored.segs \in DOMAIN fs
    /\ inScope(Vendored)

\* C20 (as amended): overlapping generations for one path all run, each
\* writes the output for the content it read, and the declaration that the
\* last write leaves corresponds to the stylesheet on disk whenever that
\* generation read the content now on disk.
C20_LastWriteHoldsWhatItRead ==
    (/\ last.op = "write" /\ watchStep /\ ~last.failed
     /\ transformable(last.file)
     /\ last.read = fs[pathResolve(last.file)])
    => /\ outputPath(last.file) \in DOMAIN fs
       /\ fs[outputPath(last.file)] =
             [kind |-> "dts", ok |-> TRUE, classes |-> fs[pathResolve(last.file)].classes]

\* a generation has written the output for the content on disk while an
\* earlier generation for the same path, which read the older content, is
\* still to write
C20_Witness ==
    /\ last.op = "write" /\ watchStep /\ ~last.failed
    /\ transformable(last.file)
    /\ last.read = fs[pathResolve(last.file)]
    /\ \E t \in BagToSet(tasks) :
          /\ t.file = last.file /\ t.batch = 0
          /\ t.stage = "write"
          /\ t.read # last.read

\* C20 (as stated): when generations for one path overlap, the declaration
\* left after both have completed corresponds to the latest stylesheet
\* content: the generation that completes last never replaces a declaration
\* that corresponds to the stylesheet on disk by one that does not.
C20_OverlapNeverLeavesStale ==
    [][ \A t \in BagToSet(tasks) :
          (/\ t.batch = 0 /\ t.stage = "write"
           /\ last'.op = "write" /\ ~last'.failed /\ last'.file = t.file
           /\ tasks' = tasks (-) SetToBag({t})
           /\ \A u \in BagToSet(tasks') : u.file # t.file
           /\ transformable(t.file)
           /\ outputPath(t.file) \in DOMAIN fs
           /\ fs[outputPath(t.file)] = formatted(fs[pathResolve(t.file)]))
          => fs'[outputPath(t.file)] = formatted(fs[pathResolve(t.file)]) ]_vars

----------------------------------------------------------------------------
(* Stylesheets that are saved and removed while their generations are in   *)
(* flight: two stylesheets of the source root, watcher events of the three *)
(* kinds the switch knows, dev server and build.  The hooks are those of   *)
(* Spec.                                                                   *)

\* the user removes a stylesheet
RemoveFile(file) ==
    /\ pc = "ready"
    /\ pathResolve(file) \in DOMAIN fs
    /\ fs' = [p \in DOMAIN fs \ {pathResolve(file)} |-> fs[p]]
    /\ last' = Step("remove", NoPath, "")
    /\ UNCHANGED <<options, pc, include, viteConfig, _filter, rootOutputDir, srcDir,
                   tasks, build, generations>>

RacePaths == {StyleA, Button}

RaceKinds == {"create", "update", "delete"}

RaceConfigs == {
    DefaultOptions,
    \* { rootDir: "out" }
    Options(Unset, Unset, Unset, Dir(OutDir), NoDir, FALSE)
}

RaceFs == [p \in {pathResolve(f) : f \in RacePaths} |-> Css({"header"})]

InitRace ==
    /\ options \in RaceConfigs
    /\ pc = "new"
    /\ include = {}
    /\ viteConfig = [resolved |-> FALSE, command |-> ""]
    /\ _filter = [made |-> FALSE, include |-> {}, ignore |-> {}, base |-> <<>>]
    /\ rootOutputDir = NoDir
    /\ srcDir = defaultSrcDir
    /\ generations = 0
    /\ fs = RaceFs
    /\ tasks = EmptyBag
    /\ build = [id |-> 0, state |-> "none"]
    /\ last = Step("init", NoPath, "")

NextRace ==
    \/ plugin
    \/ \E command \in {"serve", "build"} : configResolved(command)
    \/ buildStart
    \/ \E file \in RacePaths, ev \in RaceKinds : watchChange(file, ev)
    \/ \E t \in BagToSet(tasks) : Create(t)
    \/ \E t \in BagToSet(tasks) : Write(t)
    \/ \E content \in CssContents : EditFile(StyleA, content)
    \/ RemoveFile(StyleA)

SpecRace == InitRace /\ [][NextRace]_vars

----------------------------------------------------------------------------
(* Event paths of every form: a stylesheet of the source root named by its *)
(* absolute path, by a path relative to the working directory and by a     *)
(* relative path that climbs out of the working directory and back; a      *)
(* stylesheet in a folder named src inside the source root; a stylesheet   *)
(* in a folder whose name begins with two dots; a stylesheet outside the   *)
(* source root.                                                            *)

Inner == Abs(<< <<"p">>, <<"src">>, <<"src">>, <<"a", ".module", ".css">> >>)

\* /p/src/..cache/a.module.css
Cached == Abs(<< <<"p">>, <<"src">>, <<"..", "cache">>, <<"a", ".module", ".css">> >>)

StyleARel == Rel(<< <<"src">>, <<"a", ".module", ".css">> >>)

\* ../p/src/a.module.css, from the working directory /p
StyleAUp == Rel(<< DotDot, <<"p">>, <<"src">>, <<"a", ".module", ".css">> >>)

FormPaths == {StyleA, StyleARel, StyleAUp, Inner, Cached, StyleR}

FormKinds == {"update", "delete"}

FormConfigs == {
    DefaultOptions,
    \* { rootDir: "out" }
    Options(Unset, Unset, Unset, Dir(OutDir), NoDir, FALSE)
}

FormFs == [p \in {pathResolve(f) : f \in {StyleA, Inner, StyleR}} |-> Css({"header"})]

InitForms ==
    /\ options \in FormConfigs
    /\ pc = "new"
    /\ include = {}
    /\ viteConfig = [resolved |-> FALSE, command |-> ""]
    /\ _filter = [made |-> FALSE, include |-> {}, ignore |-> {}, base |-> <<>>]
    /\ rootOutputDir = NoDir
    /\ srcDir = defaultSrcDir
    /\ generations = 0
    /\ fs = FormFs
    /\ tasks = EmptyBag
    /\ build = [id |-> 0, state |-> "none"]
    /\ last = Step("init", NoPath, "")

NextForms ==
    \/ plugin
    \/ configResolved("serve")
    \/ buildStart
    \/ \E file \in FormPaths, ev \in FormKinds : watchChange(file, ev)
    \/ \E t \in BagToSet(tasks) : Create(t)
    \/ \E t \in BagToSet(tasks) : Write(t)

SpecForms == InitForms /\ [][NextForms]_vars

----------------------------------------------------------------------------
(* Properties about the scope, idempotence, logging and the frozen          *)
(* configuration                                                            *)

\* the name of the file ends with one of the extensions of fileExtension
endsWithExtension(file) ==
    /\ file.segs # <<>>
    /\ LET name == file.segs[Len(file.segs)]
       IN  \E e \in options.fileExtension.items :
              /\ Len(name) >= Len(e)
              /\ SubSeq(name, Len(name) - Len(e) + 1, Len(name)) = e

\* in scope when only fileExtension is given
inExtensionScope(file) ==
    endsWithExtension(file) /\ ~matchesIgnore(file) /\ ~isDeclaration(file)

\* C21: when only fileExtension is given, a path is in scope exactly when it
\* ends with one of the extensions and neither an ignore pattern nor the
\* .d.ts rule excludes it: the matcher accepts exactly those paths, an event
\* that the watcher handles is for such a path, no event for such a path
\* inside the source root is turned away, and the scan returns exactly those
\* files below the directory it walks.
C21_FileExtensionDecidesScope ==
    [][ (pc = "ready" /\ viteConfig.resolved /\ options.fileExtension.given) =>
          /\ \A file \in ScopePaths : filter(file) <=> inExtensionScope(file)
          /\ (last'.op = "watchChange" /\ last'.skip = "none") =>
                isInFolder(last'.file, srcDir) /\ inExtensionScope(last'.file)
          /\ (last'.op = "watchChange" /\ last'.skip # "none") =>
                \A file \in ScopePaths :
                   (isInFolder(file, srcDir) /\ inExtensionScope(file))
                   => \A ev \in ScopeKinds : ~watchChange(file, ev)
          /\ last'.op = "buildStart" =>
                {t.file : t \in {u \in BagToSet(tasks') : u.batch = build'.id}}
                  = {Abs(p) : p \in {q \in crawl(srcDir) : inExtensionScope(Abs(q))}} ]_vars

\* with { fileExtension: ".css" } the update of src/test.css has generated
\* src/test.css.d.ts
C21_Witness ==
    /\ options.fileExtension.given
    /\ last.op = "write" /\ ~last.failed
    /\ last.file = TestCss
    /\ withDts(TestCss.segs) \in DOMAIN fs
    /\ fs[withDts(TestCss.segs)] = formatted(fs[TestCss.segs])

\* the stylesheet holds the content it had when the plugin started
unchanged(file) ==
    /\ pathResolve(file) \in DOMAIN InitialFs
    /\ pathResolve(file) \in DOMAIN fs
    /\ fs[pathResolve(file)] = InitialFs[pathResolve(file)]

\* C22: generation is idempotent: when a declaration has been generated for a
\* stylesheet and the stylesheet has not changed since, a further successful
\* generation for it leaves the set of files and the content of every file,
\* the declaration included, as they were.
C22_GeneratingAgainChangesNothing ==
    [][ \A t \in BagToSet(tasks) :
          (/\ t.stage = "write"
           /\ last'.op = "write" /\ ~last'.failed
           /\ unchanged(t.file)
           /\ t.read = fs[pathResolve(t.file)]
           /\ outputPath(t.file) \in DOMAIN fs
           /\ Write(t))
          => fs' = fs ]_vars

\* a build has generated the declaration of src/a.module.css (buildStart
\* resolved in build mode), and a generation for an update event of the
\* unchanged stylesheet has then written the declaration again
C22_Witness ==
    /\ options = DefaultOptions
    /\ viteConfig.command = "build"
    /\ build.id = 1 /\ build.state = "resolved"
    /\ last.op = "write" /\ ~last.failed
    /\ last.file = StyleA /\ last.ev = "update"
    /\ unchanged(StyleA)
    /\ last.read = fs[StyleA.segs]
    /\ DeclA.segs \in DOMAIN fs

\* C23: every failure while a watcher event for a file is handled (its
\* generation or its deletion) is logged with the path and the kind of the
\* event: some console.error entry of the step names both.
C23_FailureLogNamesPathAndKind ==
    (watchStep /\ last.failed)
    => \E i \in DOMAIN last.errs :
          /\ last.errs[i].file = last.file
          /\ last.errs[i].ev = last.ev

\* C24: whatever the options, the config hook returns
\* css.modules.localsConvention = "camelCaseOnly" and the transformation is
\* created with camelCase enabled: the two are set together.
C24_CamelCaseIsFixed ==
    pc = "ready" =>
       /\ UserConfig.css.modules.localsConvention = "camelCaseOnly"
       /\ creator.camelCase

\* the config hook has returned for a plugin that was given options
C24_Witness ==
    /\ last.op = "config" /\ last.hook = "returned"
    /\ options.verbose /\ options.include.given /\ options.srcDir.given
    /\ UserConfig.css.modules.localsConvention = "camelCaseOnly"

\* C25: generation and deletion compute the same declaration path: a
\* successful generation for a stylesheet writes exactly the file that a
\* delete event for it removes, and a handled delete event removes exactly
\* the file that a generation for it writes, so that generating and then
\* deleting leaves the files that were there before.
C25_DeleteRemovesWhatGenerationWrote ==
    [][ (last'.ev # "" /\ ~last'.failed) =>
          /\ dtsPath(last'.file) = outputPath(last'.file)
          /\ last'.op = "write" =>
                fs' = [p \in DOMAIN fs \cup {dtsPath(last'.file)} |->
                          IF p = dtsPath(last'.file) THEN formatted(last'.read) ELSE fs[p]]
          /\ (last'.op = "watchChange" /\ last'.ev = "delete") =>
                fs' = [p \in DOMAIN fs \ {outputPath(last'.file)} |-> fs[p]] ]_vars

\* in relocated mode a generation has written the only declaration on disk,
\* and it is the file a delete event for the same stylesheet removes
C25_Witness ==
    /\ rootOutputDir.given /\ viteConfig.resolved
    /\ last.op = "write" /\ ~last.failed
    /\ last.file = Button
    /\ {p \in DOMAIN fs : fs[p].kind = "dts"} = {dtsPath(Button)}

\* the paths whose file a step created, changed or removed
touched ==
    {p \in DOMAIN fs \cup DOMAIN fs' :
        \/ p \notin DOMAIN fs
        \/ p \notin DOMAIN fs'
        \/ fs[p] # fs'[p]}

\* p lies in the directory of the file
beside(p, file) ==
    LET f == pathResolve(file)
    IN  Len(p) = Len(f) /\ SubSeq(p, 1, Len(p) - 1) = SubSeq(f, 1, Len(f) - 1)

\* C26: in relocated mode a successful generation for a stylesheet writes
\* exactly one file, the mirrored declaration under the output root, and
\* creates or changes no file beside the stylesheet.
C26_RelocatedWritesOnlyTheMirror ==
    [][ (options.rootDir.given /\ last'.op = "write" /\ last'.ev # "" /\ ~last'.failed) =>
          /\ touched \subseteq {mirrored(last'.file)}
          /\ mirrored(last'.file) \in DOMAIN fs'
          /\ fs'[mirrored(last'.file)] = formatted(last'.read)
          /\ \A p \in touched : ~beside(p, last'.file) ]_vars

\* C27: once configResolved has run, no step of any hook or generation
\* changes the resolved configuration: the options (ignore and verbose among
\* them), include, the output root, the source root and the resolved config
\* stay as they are, the matcher is built once and never again, and it
\* decides every path as it did before.
C27_ConfigurationIsFrozen ==
    [][ viteConfig.resolved =>
          /\ options' = options
          /\ include' = include
          /\ rootOutputDir' = rootOutputDir
          /\ srcDir' = srcDir
          /\ viteConfig' = viteConfig
          /\ _filter.made => _filter' = _filter
          /\ filterNow' = filterNow ]_vars

\* after configResolved a buildStart and a watcher event have both run, the
\* matcher has been built, and patterns and roots come from the options
C27_Witness ==
    /\ viteConfig.resolved
    /\ _filter.made
    /\ build.id # 0
    /\ last.op = "watchChange" /\ last.skip = "none"
    /\ options.ignore.given /\ options.srcDir.given
    /\ _filter.ignore = coerceArray(options.ignore) \cup {dtsGlob}

\* the step changed no file, dispatched no generation, logged no error and
\* its handler returned normally
quietReturn ==
    /\ fs' = fs
    /\ tasks' = tasks
    /\ generations' = generations
    /\ last'.hook = "resolved"
    /\ ~last'.failed
    /\ last'.errs = <<>>

\* C28: a watcher event of any kind for a path outside the source root, or
\* for a path that is not in scope, changes no file, starts no generation and
\* returns normally.
C28_GuardedEventsDoNothing ==
    [][ (last'.op = "watchChange" /\ ~quietReturn) =>
          \A file \in ScopePaths :
             (~isInFolder(file, srcDir) \/ ~inScope(file))
             => \A ev \in ScopeKinds : ~watchChange(file, ev) ]_vars

\* an event was turned away as not in scope while a declaration and a
\* generation in flight were there to be disturbed
C28_Witness ==
    /\ last.op = "watchChange" /\ last.skip = "nomatch"
    /\ last.hook = "resolved" /\ last.errs = <<>>
    /\ DeclA.segs \in DOMAIN fs
    /\ tasks # EmptyBag

C30_RejectionCancelsNothing ==
    [][ /\ (build.state = "pending" /\ build'.state = "rejected") =>
              /\ BagCardinality(tasks') = BagCardinality(tasks) - 1
              /\ \A u \in BagToSet(tasks) :
                    CopiesIn(u, tasks') >= CopiesIn(u, tasks) - 1
        /\ (/\ build.state = "rejected"
            /\ last'.op \in {"create", "write"}
            /\ last'.batch = build.id) =>
              /\ build' = build
              /\ \E t \in BagToSet(tasks) :
                    /\ t.batch = build.id
                    /\ tasks' = tasks (-) SetToBag({t})
                    /\ (last'.op = "write" /\ ~last'.failed) =>
                          /\ outputPath(t.file) \in DOMAIN fs'
                          /\ fs'[outputPath(t.file)] = formatted(t.read) ]_vars

\* in build mode a generation of the batch has written the declaration of
\* the stylesheet in the project root after buildStart had been rejected by
\* the failure of the other generation of the batch
C30_Witness ==
    /\ viteConfig.command = "build"
    /\ build.state = "rejected"
    /\ last.op = "write" /\ ~last.failed
    /\ last.batch = build.id /\ last.hook = "none"
    /\ withDts(StyleR.segs) \in DOMAIN fs
    /\ tasks = EmptyBag

----------------------------------------------------------------------------
(* Properties about late writes, failed generations, the folder test, the  *)
(* output root, and the equivalences between the scan and the watcher.     *)

\* C31: when a delete event for a removed stylesheet has been handled while
\* a generation of an earlier create or update event for it was in flight,
\* no declaration of the stylesheet exists once no generation for it remains
\* in flight: a late write leaves no orphan declaration.
C31_LateWriteLeavesNoOrphan ==
    [][(/\ last.op = "watchChange"
        /\ last.ev = "delete"
        /\ ~last.failed
        /\ pathResolve(last.file) \notin DOMAIN fs
        /\ \E t \in BagToSet(tasks) : t.batch = 0 /\ t.file = last.file
        /\ \A u \in BagToSet(tasks') : u.file # last.file)
       => dtsPath(last.file) \notin DOMAIN fs']_vars

\* C32: a generation whose transformation fails writes, changes and removes
\* nothing: the files on disk, the declaration of an earlier generation
\* among them, are after the failure what they were before it.
C32_FailedTransformationTouchesNothing ==
    [][(last'.op = "create" /\ last'.failed) => fs' = fs]_vars

C32_Witness ==
    /\ last.op = "create"
    /\ last.failed
    /\ last.ev = "update"
    /\ last.file = StyleA
    /\ fs[pathResolve(StyleA)] = Malformed
    /\ pathResolve(DeclA) \in DOMAIN fs
    /\ fs[pathResolve(DeclA)] = formatted(Css({"header"}))

\* the file is the folder itself or lies inside it
inside(filePath, folderPath) ==
    LET f == pathResolve(filePath)
        d == pathResolve(folderPath)
    IN  Len(f) >= Len(d) /\ SubSeq(f, 1, Len(d)) = d

\* C33: isInFolder(filePath, folderPath) is true exactly when filePath is
\* the folder or a location inside it: watchChange returns at its first
\* guard for the event paths outside the source root and for no other, an
\* entry such as ..cache/a.module.css of the source root included.
C33_FolderTestIsContainment ==
    [][last'.op = "watchChange" =>
         \A file \in FormPaths, ev \in FormKinds :
            watchChange(file, ev) =>
                (last'.skip = "outside" <=> ~inside(file, srcDir))]_vars

\* C34: in relocated mode every file that a step of the plugin writes or
\* deletes lies inside the resolved output root, whatever the form of the
\* event path that passed the guards.
C34_RelocatedPathsStayInOutputRoot ==
    [][rootOutputDir.given =>
         \A p \in touched : below(pathResolve(rootOutputDir.path), p)]_vars

C34_Witness ==
    /\ rootOutputDir.given
    /\ last.op = "write"
    /\ ~last.failed
    /\ last.file = StyleARel
    /\ outputPath(StyleARel) \in DOMAIN fs
    /\ below(pathResolve(rootOutputDir.path), outputPath(StyleARel))

\* C35: the startup scan and the watcher agree on scope: the scan returns a
\* file on disk exactly when an event for the file passes both guards of
\* watchChange.
C35_ScanAndWatcherAgree ==
    last.op = "buildStart" =>
        \A p \in DOMAIN fs :
            Abs(p) \in scanned <=> (isInFolder(Abs(p), srcDir) /\ isCssModule(Abs(p)))

\* the other of the two kinds create and update
twin(ev) == IF ev = "create" THEN "update" ELSE "create"

\* a step record without the kind of the event it names
unlabelled(step) == [step EXCEPT !.ev = "", !.errs = [i \in DOMAIN @ |-> [@[i] EXCEPT !.ev = ""]]]

\* the generations in flight for a file at a stage, of either kind
inFlight(b, file, stage) ==
    BagCardinality([t \in {u \in BagToSet(b) : u.file = file /\ u.stage = stage} |->
                        CopiesIn(t, b)])

\* C36: create and update events are handled identically: from every state
\* and for every path, the step that handles the one has the effect on the
\* files, the generations in flight and the outcome that the step handling
\* the other has, and the generation that follows ends with an effect and
\* an outcome that do not depend on the kind.
C36_CreateAndUpdateAgree ==
    [][/\ (last'.op = "watchChange" /\ last'.ev = "") =>
            \A file \in RacePaths :
                watchChange(file, "create") <=> watchChange(file, "update")
       /\ (last'.op = "watchChange" /\ last'.ev \in {"create", "update"}) =>
            \E f1 \in {fs'}, l1 \in {last'}, t1 \in {tasks'}, g1 \in {generations'} :
                ENABLED (/\ watchChange(l1.file, twin(l1.ev))
                         /\ fs' = f1
                         /\ generations' = g1
                         /\ unlabelled(last') = unlabelled(l1)
                         /\ \A file \in RacePaths, stage \in {"create", "write"} :
                                inFlight(tasks', file, stage) = inFlight(t1, file, stage))
       /\ (last'.op \in {"create", "write"} /\ last'.ev \in {"create", "update"}) =>
            /\ fs' = IF last'.op = "write" /\ ~last'.failed
                     THEN [p \in DOMAIN fs \cup {outputPath(last'.file)} |->
                             IF p = outputPath(last'.file) THEN formatted(last'.read)
                             ELSE fs[p]]
                     ELSE fs
            /\ last'.hook = "resolved"
            /\ last'.gen = IF last'.failed /\ rethrows THEN "rejected" ELSE "fulfilled"
            /\ unlabelled(last').errs =
                  (IF last'.failed THEN <<GenError(last'.file)>> ELSE <<>>)
                  \o (IF last'.failed /\ rethrows
                      THEN <<WatchError(last'.file, "")>> ELSE <<>>)
      ]_vars

C36_Witness ==
    /\ last.op = "write"
    /\ last.ev = "create"
    /\ ~last.failed
    /\ outputPath(last.file) \in DOMAIN fs
    /\ \E t \in BagToSet(tasks) : t.ev = "update" /\ t.file = last.file

\* the guard at which an event for the file returns, from the frozen
\* configuration alone
guardOf(file) ==
    IF ~isInFolder(file, srcDir) THEN "outside"
    ELSE IF ~inScope(file) THEN "nomatch"
    ELSE "none"

\* the effect of an event past the guards, from the frozen configuration,
\* the path, the kind and the files on disk
effectOf(file, ev) ==
    CASE ev \in {"create", "update"} ->
           /\ fs' = fs
           /\ tasks' = tasks (+) SetToBag({Task(file, 0, ev)})
           /\ last' = [Step("watchChange", file, ev) EXCEPT
                          !.hook = "pending", !.gen = "pending"]
      [] ev = "delete" ->
           /\ tasks' = tasks
           /\ IF dtsPath(file) \in DOMAIN fs
              THEN \/ /\ fs' = [p \in DOMAIN fs \ {dtsPath(file)} |-> fs[p]]
                      /\ last' = [Step("watchChange", file, ev) EXCEPT !.hook = "resolved"]
                   \/ /\ fs' = fs
                      /\ last' = [Step("watchChange", file, ev) EXCEPT
                                     !.hook = "resolved", !.failed = TRUE,
                                     !.errs = <<WatchError(file, ev)>>]
              ELSE /\ fs' = fs
                   /\ last' = [Step("watchChange", file, ev) EXCEPT !.hook = "resolved"]
      [] OTHER ->
           /\ fs' = fs
           /\ tasks' = tasks
           /\ last' = [Step("watchChange", file, ev) EXCEPT
                          !.hook = "resolved", !.failed = TRUE,
                          !.errs = <<WatchError(file, ev)>>]

\* C37: event processing is stateless: the guard at which an event returns
\* and the effect of an event past the guards are functions of the frozen
\* configuration, the path, the kind and the files on disk; neither the
\* events handled before, nor the generations in flight, nor the filter
\* having been built already change them.
C37_EventProcessingIsStateless ==
    [][last'.op = "watchChange" =>
         /\ last'.skip = "none" =>
               /\ guardOf(last'.file) = "none"
               /\ effectOf(last'.file, last'.ev)
         /\ last'.skip # "none" =>
               /\ fs' = fs
               /\ tasks' = tasks
               /\ last' = [Step("watchChange", NoPath, "") EXCEPT
                              !.hook = "resolved", !.skip = last'.skip]
               /\ \A file \in ScopePaths :
                     \/ guardOf(file) = last'.skip
                     \/ \A ev \in ScopeKinds : ~watchChange(file, ev)]_vars

\* an event was handled past the guards after the filter had been built by
\* an earlier event whose generation is still in flight
C37_Witness ==
    /\ last.op = "watchChange"
    /\ last.ev = "delete"
    /\ last.skip = "none"
    /\ ~last.failed
    /\ _filter.made
    /\ \E t \in BagToSet(tasks) : t.batch = 0 /\ t.file = last.file
\* C39: the mapping from stylesheets to declarations is one-to-one: the
\* declaration that a handled event writes or deletes is the declaration of
\* no other stylesheet that passes the guards, in in-place mode and in
\* relocated mode.
C39_MappingIsOneToOne ==
    (last.ev # "" /\ last.skip = "none" /\ ~last.failed) =>
        \A other \in FormPaths :
            (/\ pathResolve(other) # pathResolve(last.file)
             /\ isInFolder(other, srcDir)
             /\ isCssModule(other))
            => /\ outputPath(other) # outputPath(last.file)
               /\ dtsPath(other) # dtsPath(last.file)


----------------------------------------------------------------------------
(* Progress.  The awaits of a generation return: the transformation of     *)
(* line 156 and the write of lines 158-167 are taken when they can be.     *)

Fairness ==
    /\ WF_vars(\E t \in BagToSet(tasks) : Create(t))
    /\ WF_vars(\E t \in BagToSet(tasks) : Write(t))

\* the hooks alone: the stylesheets stay as they are
NextLive ==
    \/ plugin
    \/ \E command \in {"serve", "build"} : configResolved(command)
    \/ buildStart
    \/ \E file \in RacePaths, ev \in RaceKinds : watchChange(file, ev)
    \/ \E t \in BagToSet(tasks) : Create(t)
    \/ \E t \in BagToSet(tasks) : Write(t)

SpecLive == InitRace /\ [][NextLive]_vars /\ Fairness

\* C38: every dispatched operation settles: the generations in flight end,
\* so every watchChange that is pending resolves and a pending buildStart
\* resolves or rejects; and a generation in flight can always take its next
\* step, whatever else is in flight.
C38_EveryOperationSettles ==
    /\ (tasks # EmptyBag) ~> (tasks = EmptyBag)
    /\ (build.state = "pending") ~> (build.state \in {"resolved", "rejected"})
    /\ [](\A t \in BagToSet(tasks) : ENABLED (Create(t) \/ Write(t)))

\* a buildStart of two generations has resolved with the write of the
\* second, and nothing is left in flight
C38_Witness ==
    /\ build.state = "resolved"
    /\ last.op = "write"
    /\ last.batch = build.id
    /\ last.hook = "resolved"
    /\ tasks = EmptyBag
    /\ generations > 1

====
